---- MODULE Spec2Model ----
(***************************************************************************)
(* A model of json_diff (src/json_differ.py): the recursive comparison of  *)
(* two JSON values that reports added, removed and modified paths.         *)
(*                                                                         *)
(* A JSON value is a record with a tag t and one payload field per kind,   *)
(* the unused payloads being empty, so that any two values are comparable. *)
(* A report is a function from bucket names to buckets; a bucket is a      *)
(* function from paths (strings) to entries.                               *)
(***************************************************************************)
EXTENDS Integers, Sequences, FiniteSets, TLC

VARIABLES json1, json2, parent_key, is_recursive, key_order, pc, result

vars == <<json1, json2, parent_key, is_recursive, key_order, pc, result>>

\* ------------------------------------------------------------------ values

\* The longest list among the inputs.
MaxLen == 2

Null == [t |-> "null", s |-> "", n |-> 0, l |-> <<>>, d |-> <<>>]
Str(s) == [t |-> "str", s |-> s, n |-> 0, l |-> <<>>, d |-> <<>>]
Num(n) == [t |-> "num", s |-> "", n |-> n, l |-> <<>>, d |-> <<>>]
\* Python's bool is a subclass of int: True is the integer 1, False is 0.
Bool(b) == [t |-> "bool", s |-> "", n |-> IF b THEN 1 ELSE 0, l |-> <<>>, d |-> <<>>]
List(l) == [t |-> "list", s |-> "", n |-> 0, l |-> l, d |-> <<>>]
Dict(d) == [t |-> "dict", s |-> "", n |-> 0, l |-> <<>>, d |-> d]

IsNone(v) == v.t = "null"
IsDict(v) == v.t = "dict"
IsList(v) == v.t = "list"
IsScalar(v) == v.t \in {"str", "num", "bool"}

\* isinstance(v, (dict, list, type(None)))
IsContainerOrNone(v) == IsDict(v) \/ IsList(v) \/ IsNone(v)

\* json1 != json2 as Python evaluates it where line 120 is reached: the two
\* are scalars or of different kinds. Numbers and booleans compare by their
\* numeric value (True == 1); everything else compares structurally.
PyNotEqual(a, b) ==
    IF a.t \in {"num", "bool"} /\ b.t \in {"num", "bool"}
    THEN a.n # b.n
    ELSE a # b

\* The mapping keys of the inputs: the empty key and an ordinary one.
Keys == {"", "a"}

\* The orders in which a set of keys can be iterated.
KeyOrders == {o \in [1..Cardinality(Keys) -> Keys] : \A k \in Keys : \E i \in DOMAIN o : o[i] = k}

\* A set as a for loop visits it under the iteration order ord.
Iterate(S, ord) == SelectSeq(ord, LAMBDA k : k \in S)

\* ------------------------------------------------------------------ paths

FullKey(parent, k) == IF parent # "" THEN parent \o "." \o k ELSE k

\* IndexKey with a separating dot, as for mapping keys.
IndexKeyDotted(parent, i) ==
    IF parent # "" THEN parent \o ".[" \o ToString(i) \o "]" ELSE "[" \o ToString(i) \o "]"

IndexKey(parent, i) == parent \o "[" \o ToString(i) \o "]"

\* ---------------------------------------------------------------- reports

EmptyBucket == [p \in {} |-> Null]

NewDiff == [modified |-> EmptyBucket, added |-> EmptyBucket, removed |-> EmptyBucket]

\* NoneReport with the parent path forgotten: the entry always lands at "".
NoneReportAtRoot(j1, j2, parent) ==
    [modified |-> ("" :> <<j1, j2>>), added |-> EmptyBucket, removed |-> EmptyBucket]

\* {'modified': {parent_key: (json1, json2)}, 'added': {}, 'removed': {}}
NoneReport(j1, j2, parent) ==
    [modified |-> (parent :> <<j1, j2>>), added |-> EmptyBucket, removed |-> EmptyBucket]

\* bucket[path] = entry
SetEntry(report, b, path, entry) ==
    [report EXCEPT ![b] = (path :> entry) @@ @]

\* for key, value in sub_diff.items(): diff[key].update(value)
Update(report, sub_diff) ==
    [b \in DOMAIN report |->
        IF b \in DOMAIN sub_diff THEN sub_diff[b] @@ report[b] ELSE report[b]]

\* RemoveEmptyKeys with the filter dropped.
KeepEmptyKeys(report) == report

\* {k: v for k, v in diff.items() if v}
RemoveEmptyKeys(report) ==
    [b \in {x \in DOMAIN report : DOMAIN report[x] # {}} |-> report[b]]

\* ---------------------------------------------------------------- json_diff

RECURSIVE json_diff(_, _, _, _)
RECURSIVE RemovedLoop(_, _, _, _)
RECURSIVE AddedLoop(_, _, _, _)
RECURSIVE CommonLoop(_, _, _, _, _, _)
RECURSIVE IndexLoop(_, _, _, _, _, _)

\* for k in keys1 - keys2: diff['removed'][full_key] = json1[k]
RemovedLoop(report, ks, j1, parent) ==
    IF ks = <<>> THEN report
    ELSE RemovedLoop(SetEntry(report, "removed", FullKey(parent, Head(ks)), j1.d[Head(ks)]),
                     Tail(ks), j1, parent)

\* for k in keys2 - keys1: diff['added'][full_key] = json2[k]
AddedLoop(report, ks, j2, parent) ==
    IF ks = <<>> THEN report
    ELSE AddedLoop(SetEntry(report, "added", FullKey(parent, Head(ks)), j2.d[Head(ks)]),
                   Tail(ks), j2, parent)

\* for k in keys1 & keys2: the recursive call and the merge of its report
CommonLoop(report, ks, j1, j2, parent, ord) ==
    IF ks = <<>> THEN report
    ELSE CommonLoop(Update(report,
                           json_diff(j1.d[Head(ks)], j2.d[Head(ks)],
                                     FullKey(parent, Head(ks)), ord)),
                    Tail(ks), j1, j2, parent, ord)

\* for i, (item1, item2) in enumerate(zip(json1, json2)), from index i on
IndexLoop(report, i, j1, j2, parent, ord) ==
    IF i >= Len(j1.l) THEN report
    ELSE IndexLoop(Update(report,
                          json_diff(j1.l[i + 1], j2.l[i + 1], IndexKey(parent, i), ord)),
                   i + 1, j1, j2, parent, ord)

DiffDicts(j1, j2, parent, ord) ==
    LET keys1 == DOMAIN j1.d
        keys2 == DOMAIN j2.d
        afterRemoved == RemovedLoop(NewDiff, Iterate(keys1 \ keys2, ord), j1, parent)
        afterAdded == AddedLoop(afterRemoved, Iterate(keys2 \ keys1, ord), j2, parent)
    IN  CommonLoop(afterAdded, Iterate(keys1 \cap keys2, ord), j1, j2, parent, ord)

\* DiffLists without the length test: zip stops at the shorter list.
DiffListsZip(j1, j2, parent, ord) ==
    LET m == IF Len(j1.l) < Len(j2.l) THEN Len(j1.l) ELSE Len(j2.l)
    IN  IndexLoop(NewDiff, 0, List(SubSeq(j1.l, 1, m)), List(SubSeq(j2.l, 1, m)), parent, ord)

DiffLists(j1, j2, parent, ord) ==
    IF Len(j1.l) # Len(j2.l)
    THEN SetEntry(NewDiff, "modified", parent, <<j1, j2>>)
    ELSE IndexLoop(NewDiff, 0, j1, j2, parent, ord)

\* DiffOther without the inequality test.
DiffOtherNoCompare(j1, j2, parent) ==
    SetEntry(NewDiff, "modified", parent, <<j1, j2>>)

DiffOther(j1, j2, parent) ==
    IF PyNotEqual(j1, j2)
    THEN SetEntry(NewDiff, "modified", parent, <<j1, j2>>)
    ELSE NewDiff

\* The report a call returns when it does not raise; ord is the order in which
\* this run iterates sets of keys. The calls it makes on common keys and on
\* indices pass is_recursive=True, under which InvalidInput is false: only the
\* outermost call can raise, and the actions below test that before using this.
json_diff(j1, j2, parent, ord) ==
    IF IsNone(j1) \/ IsNone(j2) THEN NoneReport(j1, j2, parent)
    ELSE IF IsDict(j1) /\ IsDict(j2) THEN RemoveEmptyKeys(DiffDicts(j1, j2, parent, ord))
    ELSE IF IsList(j1) /\ IsList(j2) THEN RemoveEmptyKeys(DiffLists(j1, j2, parent, ord))
    ELSE RemoveEmptyKeys(DiffOther(j1, j2, parent))

\* InvalidInput with "and" for "or": one scalar argument is enough to raise.
InvalidInputEither(j1, j2, recursive) ==
    recursive = FALSE /\ ~(IsContainerOrNone(j1) /\ IsContainerOrNone(j2))

\* The guard of the raise statement, reached when neither argument is None.
InvalidInput(j1, j2, recursive) ==
    recursive = FALSE /\ ~(IsContainerOrNone(j1) \/ IsContainerOrNone(j2))

\* ------------------------------------------------------------------ inputs

Leaves == {Null, Str("x"), Bool(TRUE), Num(1)}

Lists(S) == {List(l) : l \in UNION {[1..m -> S] : m \in 0..MaxLen}}

Dicts(S) == {Dict(f) : f \in UNION {[K -> S] : K \in SUBSET Keys}}

\* Scalars, None, and containers of them.
Flat == Leaves \cup Lists(Leaves) \cup Dicts(Leaves)

\* A flat value under one key or at index 0: its comparison is a recursive call.
Nested == {List(<<v>>) : v \in Flat} \cup {Dict(k :> v) : k \in Keys, v \in Flat}

\* A mapping with both keys, the empty key holding a mapping.
TwoKeys == {Dict(("" :> v) @@ ("a" :> w)) : v \in Dicts(Leaves), w \in Leaves}

Inputs == Flat \cup Nested \cup TwoKeys

NoReport == [b \in {} |-> EmptyBucket]

NoOrder == <<>>

\* ------------------------------------------------------------- the machine

\* The branch the current call takes, in the order the code tests them.
EitherNone == IsNone(json1) \/ IsNone(json2)

Raises == ~EitherNone /\ InvalidInput(json1, json2, is_recursive)

BothDicts == ~EitherNone /\ ~Raises /\ IsDict(json1) /\ IsDict(json2)

BothLists == ~EitherNone /\ ~Raises /\ ~BothDicts /\ IsList(json1) /\ IsList(json2)

Otherwise == ~EitherNone /\ ~Raises /\ ~BothDicts /\ ~BothLists

\* A call from outside: json_diff(json1, json2).
Init ==
    /\ json1 \in Inputs
    /\ json2 \in Inputs
    /\ parent_key = ""
    /\ is_recursive = FALSE
    /\ key_order = NoOrder
    /\ pc = "call"
    /\ result = NoReport

\* if json1 is None or json2 is None: return ...
ReturnNone ==
    /\ pc = "call"
    /\ EitherNone
    /\ result' = json_diff(json1, json2, parent_key, NoOrder)
    /\ pc' = "returned"
    /\ UNCHANGED <<json1, json2, parent_key, is_recursive, key_order>>

\* raise ValueError(...)
RaiseValueError ==
    /\ pc = "call"
    /\ Raises
    /\ pc' = "raised"
    /\ UNCHANGED <<json1, json2, parent_key, is_recursive, key_order, result>>

\* Both are mappings: the whole call, its recursive calls included.
ReturnDicts ==
    /\ pc = "call"
    /\ BothDicts
    /\ \E ord \in KeyOrders :
          /\ key_order' = ord
          /\ result' = json_diff(json1, json2, parent_key, ord)
    /\ pc' = "returned"
    /\ UNCHANGED <<json1, json2, parent_key, is_recursive>>

\* Both are lists: the whole call, its recursive calls included.
ReturnLists ==
    /\ pc = "call"
    /\ BothLists
    /\ \E ord \in KeyOrders :
          /\ key_order' = ord
          /\ result' = json_diff(json1, json2, parent_key, ord)
    /\ pc' = "returned"
    /\ UNCHANGED <<json1, json2, parent_key, is_recursive>>

\* Scalars or values of different kinds.
ReturnOther ==
    /\ pc = "call"
    /\ Otherwise
    /\ result' = json_diff(json1, json2, parent_key, NoOrder)
    /\ pc' = "returned"
    /\ UNCHANGED <<json1, json2, parent_key, is_recursive, key_order>>

\* sub_diff = json_diff(json1[k], json2[k], full_key, is_recursive=True):
\* the callee's frame becomes the current one.
CallOnCommonKey ==
    /\ pc = "call"
    /\ BothDicts
    /\ \E k \in DOMAIN json1.d \cap DOMAIN json2.d :
          /\ json1' = json1.d[k]
          /\ json2' = json2.d[k]
          /\ parent_key' = FullKey(parent_key, k)
    /\ is_recursive' = TRUE
    /\ UNCHANGED <<key_order, pc, result>>

\* sub_diff = json_diff(item1, item2, full_key, is_recursive=True)
CallOnIndex ==
    /\ pc = "call"
    /\ BothLists
    /\ Len(json1.l) = Len(json2.l)
    /\ \E i \in 0..(Len(json1.l) - 1) :
          /\ json1' = json1.l[i + 1]
          /\ json2' = json2.l[i + 1]
          /\ parent_key' = IndexKey(parent_key, i)
    /\ is_recursive' = TRUE
    /\ UNCHANGED <<key_order, pc, result>>

Next ==
    \/ ReturnNone
    \/ RaiseValueError
    \/ ReturnDicts
    \/ ReturnLists
    \/ ReturnOther
    \/ CallOnCommonKey
    \/ CallOnIndex

Spec == Init /\ [][Next]_vars

\* ------------------------------------------------------------- properties

BucketNames == {"modified", "added", "removed"}

\* The bucket b of a report, empty when the report has no such key.
Bucket(report, b) == IF b \in DOMAIN report THEN report[b] ELSE EmptyBucket

\* The number of path entries a report holds.
EntryCount(report) ==
    Cardinality(DOMAIN Bucket(report, "modified"))
    + Cardinality(DOMAIN Bucket(report, "added"))
    + Cardinality(DOMAIN Bucket(report, "removed"))

BothScalars == IsScalar(json1) /\ IsScalar(json2)

\* C1, as claimed: whenever json_diff returns, the Null short-circuit
\* included, each bucket present in the report holds at least one entry.
C1_NoEmptyBucket ==
    pc = "returned" => \A b \in DOMAIN result : DOMAIN result[b] # {}

\* C1, amended: a call with neither argument None returns a report without
\* an empty bucket; a call with a None argument returns all three buckets,
\* 'added' and 'removed' empty and 'modified' holding one entry.
C1_PrunedUnlessNone ==
    pc = "returned" =>
        IF EitherNone
        THEN /\ DOMAIN result = BucketNames
             /\ DOMAIN result["added"] = {}
             /\ DOMAIN result["removed"] = {}
             /\ Cardinality(DOMAIN result["modified"]) = 1
        ELSE \A b \in DOMAIN result : DOMAIN result[b] # {}

\* A call with no None argument returned a report from which two empty
\* buckets were dropped.
C1_Witness ==
    /\ pc = "returned"
    /\ ~EitherNone
    /\ DOMAIN result = {"removed"}

\* The paths at which comparing v with itself under parent meets None.
RECURSIVE NonePaths(_, _)
NonePaths(v, parent) ==
    IF IsNone(v) THEN {parent}
    ELSE IF IsDict(v) THEN UNION {NonePaths(v.d[k], FullKey(parent, k)) : k \in DOMAIN v.d}
    ELSE IF IsList(v) THEN UNION {NonePaths(v.l[i], IndexKey(parent, i - 1)) : i \in DOMAIN v.l}
    ELSE {}

\* C2, as claimed: the top-level json_diff(v, v) returns the empty report
\* for every v but None (scalars and values holding None included), and the
\* single modified entry at "" for None.
C2_SelfDiffEmpty ==
    (pc # "call" /\ ~is_recursive /\ json1 = json2) =>
        /\ pc = "returned"
        /\ IF IsNone(json1)
           THEN Bucket(result, "modified") = ("" :> <<Null, Null>>) /\ EntryCount(result) = 1
           ELSE DOMAIN result = {}

\* C2, amended: for a list or mapping v the top-level json_diff(v, v) has no
\* added or removed bucket and its modified entries are exactly (None, None)
\* at each path where v holds None, so the report is empty when v holds no
\* None; for v = None it is the single modified entry at ""; a scalar v
\* raises.
C2_SelfDiff ==
    (pc # "call" /\ ~is_recursive /\ json1 = json2) =>
        IF IsScalar(json1) THEN pc = "raised"
        ELSE /\ pc = "returned"
             /\ Bucket(result, "added") = EmptyBucket
             /\ Bucket(result, "removed") = EmptyBucket
             /\ Bucket(result, "modified") = [p \in NonePaths(json1, "") |-> <<Null, Null>>]
             /\ IsNone(json1) => DOMAIN result = BucketNames
             /\ (~IsNone(json1) /\ NonePaths(json1, "") = {}) => DOMAIN result = {}
             /\ (~IsNone(json1) /\ NonePaths(json1, "") # {}) => DOMAIN result = {"modified"}

\* A mapping holding a non-empty list of scalars was compared with itself
\* and the report is empty.
C2_Witness ==
    /\ pc = "returned"
    /\ ~is_recursive
    /\ json1 = json2
    /\ IsDict(json1)
    /\ \E k \in DOMAIN json1.d : IsList(json1.d[k]) /\ Len(json1.d[k].l) > 0
    /\ DOMAIN result = {}

\* C3: a call with a None argument, at any parent path and whatever the
\* other argument is, returns exactly modified[parent_key] = (json1, json2)
\* with no added or removed entry, and never raises.
C3_NoneShortCircuit ==
    /\ (pc = "returned" /\ EitherNone) =>
          /\ Bucket(result, "modified") = (parent_key :> <<json1, json2>>)
          /\ DOMAIN Bucket(result, "added") = {}
          /\ DOMAIN Bucket(result, "removed") = {}
    /\ (pc = "raised") => ~EitherNone
    /\ (pc = "call" /\ EitherNone) => ENABLED ReturnNone

\* A recursive call under a non-empty parent path compared None with a
\* mapping and returned.
C3_Witness ==
    /\ pc = "returned"
    /\ is_recursive
    /\ parent_key # ""
    /\ IsNone(json1)
    /\ IsDict(json2)

C5_OnlyKeysRecorded ==
    (pc = "returned" /\ BothDicts) =>
        /\ \A k \in DOMAIN json1.d \ DOMAIN json2.d :
              LET path == IF parent_key = "" THEN k ELSE parent_key \o "." \o k
              IN  /\ path \in DOMAIN Bucket(result, "removed")
                  /\ Bucket(result, "removed")[path] = json1.d[k]
        /\ \A k \in DOMAIN json2.d \ DOMAIN json1.d :
              LET path == IF parent_key = "" THEN k ELSE parent_key \o "." \o k
              IN  /\ path \in DOMAIN Bucket(result, "added")
                  /\ Bucket(result, "added")[path] = json2.d[k]

ElementReport(i) ==
    json_diff(json1.l[i + 1], json2.l[i + 1],
              parent_key \o "[" \o ToString(i) \o "]", key_order)

\* The report is the union of the element reports: every entry of an element
\* report is in it unchanged, it holds nothing else, and no bucket is empty.
IsUnionOfElementReports ==
    \A b \in BucketNames :
        /\ DOMAIN Bucket(result, b) =
              UNION {DOMAIN Bucket(ElementReport(i), b) : i \in 0..(Len(json1.l) - 1)}
        /\ \A i \in 0..(Len(json1.l) - 1) :
              \A p \in DOMAIN Bucket(ElementReport(i), b) :
                  Bucket(result, b)[p] = Bucket(ElementReport(i), b)[p]
        /\ b \in DOMAIN result <=> DOMAIN Bucket(result, b) # {}

\* C7, as claimed: comparing two lists of equal length at parent path p, the
\* report is the union of the reports of the elements at p + "[" + i + "]",
\* and equal elements contribute nothing.
C7_PositionalUnion ==
    (pc = "returned" /\ BothLists /\ Len(json1.l) = Len(json2.l)) =>
        /\ IsUnionOfElementReports
        /\ \A i \in 0..(Len(json1.l) - 1) :
              json1.l[i + 1] = json2.l[i + 1] => EntryCount(ElementReport(i)) = 0

\* C7, amended: the report is the union of the element reports at
\* p + "[" + i + "]"; equal elements that hold no None contribute nothing,
\* and an equal element holding None contributes a (None, None) entry.
C7_PositionalUnionNoneAside ==
    (pc = "returned" /\ BothLists /\ Len(json1.l) = Len(json2.l)) =>
        /\ IsUnionOfElementReports
        /\ \A i \in 0..(Len(json1.l) - 1) :
              json1.l[i + 1] = json2.l[i + 1] =>
                  (EntryCount(ElementReport(i)) = 0
                      <=> NonePaths(json1.l[i + 1], "") = {})

\* A list under a mapping key was compared with one of the same length that
\* differs in its second element only, and the report is that one entry.
C7_Witness ==
    /\ pc = "returned"
    /\ is_recursive
    /\ parent_key = "a"
    /\ BothLists
    /\ Len(json1.l) = 2
    /\ Len(json2.l) = 2
    /\ json1.l[1] = json2.l[1]
    /\ DOMAIN result = {"modified"}
    /\ DOMAIN result["modified"] = {"a[1]"}

\* C8, as claimed: the report does not depend on the order in which the keys
\* of a mapping are iterated.
C8_KeyOrderIrrelevant ==
    pc = "returned" =>
        \A ord \in KeyOrders : json_diff(json1, json2, parent_key, ord) = result

\* The number of writes into a bucket that a call makes, its recursive calls
\* included.
RECURSIVE WriteCount(_, _)
RECURSIVE SumOver(_, _, _)
SumOver(S, j1, j2) ==
    IF S = {} THEN 0
    ELSE LET x == CHOOSE y \in S : TRUE
         IN  (IF IsDict(j1) THEN WriteCount(j1.d[x], j2.d[x]) ELSE WriteCount(j1.l[x], j2.l[x]))
             + SumOver(S \ {x}, j1, j2)
WriteCount(j1, j2) ==
    IF IsNone(j1) \/ IsNone(j2) THEN 1
    ELSE IF IsDict(j1) /\ IsDict(j2)
         THEN Cardinality(DOMAIN j1.d \ DOMAIN j2.d)
              + Cardinality(DOMAIN j2.d \ DOMAIN j1.d)
              + SumOver(DOMAIN j1.d \cap DOMAIN j2.d, j1, j2)
    ELSE IF IsList(j1) /\ IsList(j2)
         THEN IF Len(j1.l) # Len(j2.l) THEN 1 ELSE SumOver(DOMAIN j1.l, j1, j2)
    ELSE IF PyNotEqual(j1, j2) THEN 1 ELSE 0

\* C9, as claimed: no write targets a path already in the running result, so
\* the report holds one entry per write, and no path is in two buckets.
C9_NoPathCollision ==
    pc = "returned" =>
        /\ EntryCount(result) = WriteCount(json1, json2)
        /\ DOMAIN Bucket(result, "added") \cap DOMAIN Bucket(result, "removed") = {}
        /\ DOMAIN Bucket(result, "added") \cap DOMAIN Bucket(result, "modified") = {}
        /\ DOMAIN Bucket(result, "removed") \cap DOMAIN Bucket(result, "modified") = {}

\* C10, as claimed: a top-level call that returns a report without entries
\* was given two structurally equal values.
C10_NoChangeDropped ==
    (pc = "returned" /\ ~is_recursive /\ EntryCount(result) = 0) => json1 = json2

====
